---- MODULE Spec2Model ----
(***************************************************************************)
(* Clearance-field pathfinding of examples/others/pathfinding_sdf_enhanced.c *)
(*                                                                         *)
(* The model follows the update block of main (clearance field rebuild)    *)
(* and FindPath (seed initialisation, main loop, path reconstruction).     *)
(* The grid and the clearance radius are scaled down: the source uses an   *)
(* 80 x 45 grid and the radius 10, the model gridWidth x gridHeight and    *)
(* sdfMax.  Every other number is the one of the source.                   *)
(***************************************************************************)
EXTENDS Integers, Sequences, FiniteSets, TLC

\* ------------------------------------------------------------------ bounds
\* scaled-down grid (gridWidth = 80, gridHeight = 45 in the source)
gridWidth == 3
gridHeight == 2
\* scaled-down clearance cap and neighbour radius (the literal 10 in the source)
sdfMax == 3
\* the obstacle bitmaps drawn by Init hold at most MaxBlocked blocked cells
MaxBlocked == 1
\* scaled-down width of int in bits (32 in the source)
IntBits == 6
\* the largest |dx| and |dy| the lookup table is read with
LookupSpan == 15
\* scaled-down float: the significand has MantBits bits (24 in the source)
\* and the smallest positive value is 2^-FracBits
MantBits == 4
FracBits == 6
\* the largest frame time, in units of 2^-FracBits seconds
MaxFrameTime == 16
\* the number of frames of main's loop that are followed
MaxFrames == 2

\* ------------------------------------------------------- program constants
\* int isqrt[256]
IsqrtSize == 256
\* divisor of the clearance term of the score
SdfDivisor == 6

\* the search parameters the model calls FindPath with
UnitSizes == {1, 2}
SdfFactors == {0, 2}
\* the factors of the runs that cover both signs
SignedFactors == {0 - 2, 2}
JumpFlags == {0, 1}

\* --------------------------------------------------------------- helpers
CellCount == gridWidth * gridHeight
Cells == 0 .. (CellCount - 1)
Xs == 0 .. (gridWidth - 1)
Ys == 0 .. (gridHeight - 1)
CellIndex(x, y) == y * gridWidth + x
CellX(c) == c % gridWidth
CellY(c) == c \div gridWidth

Abs(a) == IF a < 0 THEN 0 - a ELSE a

\* C integer division truncates toward zero
CDiv(a, b) == IF a >= 0 THEN a \div b ELSE 0 - ((0 - a) \div b)

\* the range of int, and the two's complement result of an addition that
\* leaves it
IntMin == 0 - 2 ^ (IntBits - 1)
IntMax == 2 ^ (IntBits - 1) - 1
WrapInt(v) == ((v - IntMin) % (2 ^ IntBits)) + IntMin

\* mutant: the square root is truncated
FloorSqrt(n) == CHOOSE k \in 0 .. n : k * k <= n /\ (k + 1) * (k + 1) > n

\* (int)ceilf(sqrtf(i)): exact for the table's range
CeilSqrt(n) == CHOOSE k \in 0 .. n : k * k >= n /\ (k = 0 \/ (k - 1) * (k - 1) < n)

\* the lookup table filled at startup
isqrt == [i \in 0 .. (IsqrtSize - 1) |-> CeilSqrt(i)]

\* mutant: the Chebyshev branch keeps the smaller component
SdfDistanceMinComponent(f, dx, dy) ==
    IF f = 0 THEN isqrt[dx * dx + dy * dy]
    ELSE IF f = 1 THEN (IF Abs(dx) < Abs(dy) THEN Abs(dx) ELSE Abs(dy))
    ELSE IF f = 2 THEN Abs(dx) + Abs(dy)
    ELSE 0

\* the three distance functions of the update block, selected by sdfFunction
SdfDistance(f, dx, dy) ==
    IF f = 0 THEN isqrt[dx * dx + dy * dy]
    ELSE IF f = 1 THEN (IF Abs(dx) < Abs(dy) THEN Abs(dy) ELSE Abs(dx))
    ELSE IF f = 2 THEN Abs(dx) + Abs(dy)
    ELSE 0

\* mutant: the last blocked cell in range wins, whatever is stored
SdfWritesLast(d, current) == d < sdfMax

\* the test that guards the write of a smaller distance
SdfWrites(d, current) == d < current /\ d < sdfMax

\* the scan window around a blocked cell, clamped to the grid
WindowLo(v) == IF v - sdfMax < 0 THEN 0 ELSE v - sdfMax
WindowHi(v, size) == IF v + sdfMax >= size THEN size - 1 ELSE v + sdfMax

\* one iteration of the scan over the grid: cell k splats its distances
SplatCell(sdf, blocked, f, k) ==
    IF blocked[k] # 1 THEN sdf
    ELSE LET x == CellX(k)
             y == CellY(k)
             s0 == [sdf EXCEPT ![k] = 0]
         IN  [c \in Cells |->
                LET i == CellX(c)
                    j == CellY(c)
                    d == SdfDistance(f, x - i, y - j)
                IN  IF /\ i >= WindowLo(x) /\ i <= WindowHi(x, gridWidth)
                       /\ j >= WindowLo(y) /\ j <= WindowHi(y, gridHeight)
                       /\ SdfWrites(d, s0[c])
                    THEN d ELSE s0[c]]

RECURSIVE SdfScan(_, _, _, _)
SdfScan(sdf, blocked, f, k) ==
    IF k = CellCount THEN sdf
    ELSE SdfScan(SplatCell(sdf, blocked, f, k), blocked, f, k + 1)

\* the whole rebuild: reset to the cap, then scan the cells in index order
ComputeSdf(blocked, f) == SdfScan([c \in Cells |-> sdfMax], blocked, f, 0)

\* ------------------------------------------------------ neighbour offsets
OffsetSide == 2 * sdfMax + 1

\* position k of the nested loops over x and y (x outer, y inner)
OffsetAt(k) ==
    LET x == (k \div OffsetSide) - sdfMax
        y == (k % OffsetSide) - sdfMax
    IN  [x |-> x, y |-> y, distance |-> isqrt[x * x + y * y]]

\* the loop positions whose offset is stored
KeptOffsets ==
    { k \in 0 .. (OffsetSide * OffsetSide - 1) :
        OffsetAt(k).distance <= sdfMax /\ OffsetAt(k).distance > 0 }

\* the table, in the order the loops fill it
neighborOffsets ==
    [i \in 1 .. Cardinality(KeptOffsets) |->
        OffsetAt(CHOOSE k \in KeptOffsets :
                    Cardinality({j \in KeptOffsets : j < k}) = i - 1)]
neighborOffsetCount == Len(neighborOffsets)

\* ------------------------------------------------------------------ state
VARIABLES
    blockedCells,   \* char *blockedCells
    sdfCells,       \* char *sdfCells
    sdfFunction,    \* the selected distance function
    updateSDF,      \* the rebuild flag of main
    pc,             \* "update", "call", "loop", "done", "trap"
    startX, startY, \* FindPath parameters: the cell the search is seeded at
    toX, toY,       \* FindPath parameters: the cell the path is read back from
    unitSize, sdfFactor, enableJumping,
    map,            \* PathfindingNode *map
    queue,          \* the open set, queue[0 .. queueLength-1]
    path,           \* PathfindingNode *path (the entries written so far)
    pathLength,     \* *pathLength
    overflowLogged, \* TraceLog(LOG_ERROR, "queue overflow") was called
    firstPopped,    \* history: per cell, the path read back from it when an
                    \* entry of it was first dequeued (<< >> before that)
    poppedScores,   \* history: the scores of the entries dequeued so far
    paintMode, randomizeBlocks, ratWallFactor, jumpingEnabled,  \* locals of main
    mapRat, pathRat, pathRatLength,                             \* the rat's search
    mapCat, pathCat, pathCatLength,                             \* the cat's search
    framesDrawn,    \* the number of frames drawn so far
    jump,           \* a relaxation on the full-size neighbourhood
    lookup,         \* a read of the lookup table
    offsets,        \* the neighbour offset table as the loops of main fill it
    move            \* a call of DrawPathMovement

\* the locals of main that only the frames of the main loop change
frameVars == << paintMode, randomizeBlocks, ratWallFactor, jumpingEnabled,
                mapRat, pathRat, pathRatLength, mapCat, pathCat, pathCatLength,
                framesDrawn >>

\* the parameters and locals of a call of FindPath
findPathVars == << startX, startY, toX, toY, unitSize, sdfFactor, enableJumping,
                   map, queue, path, pathLength, overflowLogged, firstPopped,
                   poppedScores >>

vars == << blockedCells, sdfCells, sdfFunction, updateSDF, pc, findPathVars,
           frameVars, jump, lookup, offsets, move >>

queueLength == Len(queue)

Node(x, y, fx, fy, s) == [x |-> x, y |-> y, fromX |-> fx, fromY |-> fy, score |-> s]
ZeroNode == Node(0, 0, 0, 0, 0)
\* what an earlier search from cell (0,0) to itself left in the caller's path
StaleNode == Node(0, 0, 0 - 1, 0 - 1, 1)

\* the locals of main and the zeroed arrays before the first frame
MainLocalsAtStart ==
    /\ paintMode = 0 /\ randomizeBlocks = 1
    /\ ratWallFactor = 2 /\ jumpingEnabled = 1
    /\ mapRat = [c \in Cells |-> ZeroNode] /\ mapCat = [c \in Cells |-> ZeroNode]
    /\ pathRat = << >> /\ pathCat = << >>
    /\ pathRatLength = 0 /\ pathCatLength = 0

\* no relaxation tried, no table entry read
NoJump == [taken |-> FALSE, walls |-> {}, metric |-> 0, unit |-> 1,
           x |-> 0, y |-> 0, dx |-> 0, dy |-> 0]
NoLookup == [read |-> FALSE, dx |-> 0, dy |-> 0, inRange |-> FALSE, value |-> 0]
\* the table before the loops of main: x and y at their first values, no
\* entry written (table[1 .. count] are neighborOffsets[0 .. count-1])
NoOffsets == [x |-> 0 - 10, y |-> 0 - 10, table |-> << >>, count |-> 0,
              overrun |-> FALSE, read |-> 0]
\* DrawPathMovement not called yet: the path handed to it, the accumulator
\* *walkedPathDistance, and what the last call did
NoMove == [called |-> FALSE, path |-> << >>, pathCount |-> 0, walked |-> 0,
           before |-> 0, advanced |-> 0, produced |-> FALSE, segment |-> 0,
           pointDistance |-> 0, d |-> 0, t |-> 0]

Bitmaps == { b \in [Cells -> {0, 1}] : Cardinality({c \in Cells : b[c] = 1}) <= MaxBlocked }

\* no call of FindPath made yet
NoFindPath ==
    /\ startX = 0 /\ startY = 0 /\ toX = 0 /\ toY = 0
    /\ unitSize = 1 /\ sdfFactor = 0 /\ enableJumping = 1
    /\ map = [c \in Cells |-> ZeroNode]
    /\ queue = << >>
    /\ path = << StaleNode >>
    /\ pathLength = 1
    /\ overflowLogged = FALSE
    /\ firstPopped = [c \in Cells |-> << >>]
    /\ poppedScores = {}

Init ==
    /\ blockedCells \in Bitmaps
    /\ sdfFunction \in 0 .. 2
    /\ sdfCells = [c \in Cells |-> 0]
    /\ updateSDF = 1
    /\ pc = "update"
    /\ NoFindPath
    /\ MainLocalsAtStart
    /\ framesDrawn = 0
    /\ jump = NoJump
    /\ lookup = NoLookup
    /\ offsets = NoOffsets
    /\ move = NoMove

\* --------------------------------------------------------------- FindPath
\* mutant: the newest entry is dequeued
LowestScoreIndexNewest(q) == Len(q)

\* mutant: the oldest entry is dequeued
LowestScoreIndexOldest(q) == 1

\* scan for the first entry with the lowest score (1-based index)
LowestScoreIndex(q) ==
    CHOOSE i \in 1 .. Len(q) :
        \A j \in 1 .. Len(q) :
            /\ q[i].score <= q[j].score
            /\ (j < i => q[j].score > q[i].score)

\* mutant: the dequeued entry is left in the queue
DequeueKeeps(q, i) == q

\* shift the entries after index i down by one
Dequeue(q, i) == SubSeq(q, 1, i - 1) \o SubSeq(q, i + 1, Len(q))

MaxDistance(cellSdf, unit) == IF cellSdf - unit < 1 THEN 1 ELSE cellSdf - unit

\* mutant: the jump flag is not tested
SkipOffsetAnyJump(stepDistance, maxDistance, jumping) == stepDistance > maxDistance

\* mutant: with jumping off, steps of distance 2 still pass
SkipOffsetTwo(stepDistance, maxDistance, jumping) ==
    stepDistance > maxDistance \/ (jumping = 0 /\ stepDistance > 2)

SkipOffset(stepDistance, maxDistance, jumping) ==
    stepDistance > maxDistance \/ (jumping = 0 /\ stepDistance > 1)

OutsideMap(x, y) == x < 0 \/ x >= gridWidth \/ y < 0 \/ y >= gridHeight

\* mutant: the landing cell is not tested
ClipsWallNever(nextSdf, unit) == FALSE

\* mutant: the comparison of the landing test is turned around
ClipsWallInverted(nextSdf, unit) == nextSdf >= unit

ClipsWall(nextSdf, unit) == nextSdf < unit

\* mutant: the clearance term is integrated over stepDistance, not stepDistance + 1
NextScoreShort(nodeScore, stepDistance, sdfValue, cellSdf, factor) ==
    LET integratedSdfValue == CDiv((sdfValue + cellSdf) * stepDistance, 2)
    IN  WrapInt(WrapInt(nodeScore + stepDistance)
                + CDiv(integratedSdfValue * factor, SdfDivisor))

\* mutant: the clearance term is subtracted
NextScoreSubtracts(nodeScore, stepDistance, sdfValue, cellSdf, factor) ==
    LET integratedSdfValue == CDiv((sdfValue + cellSdf) * (stepDistance + 1), 2)
    IN  WrapInt(WrapInt(nodeScore + stepDistance)
                - CDiv(integratedSdfValue * factor, SdfDivisor))

\* whether one of the two additions of the score leaves the range of int
ScoreOverflows(nodeScore, stepDistance, sdfValue, cellSdf, factor) ==
    LET integratedSdfValue == CDiv((sdfValue + cellSdf) * (stepDistance + 1), 2)
        score == nodeScore + stepDistance
        total == WrapInt(score) + CDiv(integratedSdfValue * factor, SdfDivisor)
    IN  score < IntMin \/ score > IntMax \/ total < IntMin \/ total > IntMax

\* the score of the landing cell; an addition that overflows wraps around
NextScore(nodeScore, stepDistance, sdfValue, cellSdf, factor) ==
    LET integratedSdfValue == CDiv((sdfValue + cellSdf) * (stepDistance + 1), 2)
    IN  WrapInt(WrapInt(nodeScore + stepDistance)
                + CDiv(integratedSdfValue * factor, SdfDivisor))

\* mutant: an equal score also replaces the record
ImprovesOrEqual(score, stored) == stored = 0 \/ score <= stored

\* mutant: only the first visit of a cell is recorded
ImprovesFirstVisit(score, stored) == stored = 0

Improves(score, stored) == stored = 0 \/ score < stored

\* one push: queue[queueLength] = n; queueLength++, with queueLength set back
\* to CellCount - 1 when it reaches CellCount, so that the entry just written
\* is dropped.  EnqueueAll is the pushes of one loop iteration, in turn.
\* mutant: the clamp lets queueLength reach CellCount
PushClampsLate(q, n) ==
    LET pushed == Append(q, n)
    IN  IF Len(pushed) > CellCount THEN SubSeq(pushed, 1, CellCount) ELSE pushed

Push(q, n) ==
    LET pushed == Append(q, n)
    IN  IF Len(pushed) >= CellCount THEN SubSeq(pushed, 1, CellCount - 1) ELSE pushed

RECURSIVE PushFrom(_, _, _)
PushFrom(q, pushes, i) ==
    IF i > Len(pushes) THEN q ELSE PushFrom(Push(q, pushes[i]), pushes, i + 1)

EnqueueAll(q, pushes) == PushFrom(q, pushes, 1)

\* the indices queueLength at which those pushes write queue[queueLength]
RECURSIVE WrittenSlotsFrom(_, _, _)
WrittenSlotsFrom(q, pushes, i) ==
    IF i > Len(pushes) THEN {}
    ELSE {Len(q)} \cup WrittenSlotsFrom(Push(q, pushes[i]), pushes, i + 1)

\* whether the pushes of one loop iteration reach the overflow branch
Overflows(q, pushes) == Len(q) + Len(pushes) >= CellCount

\* the loop body for the offset o: TRUE when it passes the three skips and
\* the relaxation test, so that it writes the map and pushes
Relaxes(m, node, sdf, unit, factor, jumping, o) ==
    LET cellSdf == sdf[CellIndex(node.x, node.y)]
        maxDistance == MaxDistance(cellSdf, unit)
        stepDistance == o.distance
        x == node.x + o.x
        y == node.y + o.y
    IN  /\ ~SkipOffset(stepDistance, maxDistance, jumping)
        /\ ~OutsideMap(x, y)
        /\ ~ClipsWall(sdf[CellIndex(x, y)], unit)
        /\ Improves(NextScore(node.score, stepDistance, sdf[CellIndex(x, y)],
                              cellSdf, factor),
                    m[CellIndex(x, y)].score)

\* the record the loop body writes for the offset o
Relaxed(node, sdf, factor, o) ==
    LET x == node.x + o.x
        y == node.y + o.y
    IN  Node(x, y, node.x, node.y,
             NextScore(node.score, o.distance, sdf[CellIndex(x, y)],
                       sdf[CellIndex(node.x, node.y)], factor))

\* the offsets whose loop iteration writes, in table order.  No two offsets
\* land on the same cell, so every iteration tests the map entry as it was
\* when the loop over the offsets began.
RelaxingOffsets(m, node, sdf, unit, factor, jumping) ==
    SelectSeq(neighborOffsets,
              LAMBDA o : Relaxes(m, node, sdf, unit, factor, jumping, o))

\* the records written by the loop over the neighbour offsets, in table order
RelaxedFrom(node, sdf, factor, hits) ==
    [i \in 1 .. Len(hits) |-> Relaxed(node, sdf, factor, hits[i])]

\* the map after those writes
MapAfter(m, written) ==
    [c \in Cells |->
        IF \E i \in 1 .. Len(written) : CellIndex(written[i].x, written[i].y) = c
        THEN written[CHOOSE i \in 1 .. Len(written) :
                        CellIndex(written[i].x, written[i].y) = c]
        ELSE m[c]]

\* the map and the queue after the initialisation with the start position
SeededMap(m, sx, sy) ==
    [c \in Cells |->
        IF c = CellIndex(sx, sy) THEN Node(sx, sy, 0 - 1, 0 - 1, 1)
        ELSE [m[c] EXCEPT !.score = 0]]
SeededQueue(sx, sy) == << Node(sx, sy, sx, sy, 1) >>

\* the main loop run from the map m and the queue q until the queue is empty
RECURSIVE RunLoop(_, _, _, _, _, _)
RunLoop(m, q, sdf, unit, factor, jumping) ==
    IF Len(q) = 0 THEN m
    ELSE LET lowestScoreIndex == LowestScoreIndex(q)
             node == q[lowestScoreIndex]
             written == RelaxedFrom(node, sdf, factor,
                                    RelaxingOffsets(m, node, sdf, unit, factor, jumping))
         IN  RunLoop(MapAfter(m, written),
                     EnqueueAll(Dequeue(q, lowestScoreIndex), written),
                     sdf, unit, factor, jumping)

\* the map a whole search leaves
SearchedMap(m, sdf, sx, sy, unit, factor, jumping) ==
    RunLoop(SeededMap(m, sx, sy), SeededQueue(sx, sy), sdf, unit, factor, jumping)

\* the walk back along the from links, newest entry last
RECURSIVE WalkBack(_, _, _, _, _, _)
WalkBack(m, x, y, sx, sy, acc) ==
    IF m[CellIndex(x, y)].score > 0 /\ (x # sx \/ y # sy) /\ Len(acc) < CellCount
    THEN WalkBack(m, m[CellIndex(x, y)].fromX, m[CellIndex(x, y)].fromY, sx, sy,
                  Append(acc, m[CellIndex(x, y)]))
    ELSE acc

\* mutant: the collected entries are reversed before they are written
WrittenPathReversed(m, tx, ty, sx, sy) ==
    LET w == Append(WalkBack(m, tx, ty, sx, sy, << >>), m[CellIndex(sx, sy)])
    IN  [i \in 1 .. Len(w) |-> w[Len(w) + 1 - i]]

\* the entries FindPath writes to path on success
WrittenPath(m, tx, ty, sx, sy) ==
    Append(WalkBack(m, tx, ty, sx, sy, << >>), m[CellIndex(sx, sy)])

\* ---------------------------------------------------------------- actions
\* main: the clearance field rebuild of the update block
UpdateSdf ==
    /\ pc = "update"
    /\ updateSDF = 1
    /\ updateSDF' = 0
    /\ sdfCells' = ComputeSdf(blockedCells, sdfFunction)
    /\ pc' = "call"
    /\ UNCHANGED << blockedCells, sdfFunction, startX, startY, toX, toY, unitSize,
                    sdfFactor, enableJumping, map, queue, path, pathLength,
                    overflowLogged, firstPopped, poppedScores, frameVars, jump,
                    lookup, offsets, move >>

\* FindPath entry: clear the scores, seed the queue and the map
CallFindPathWith(factors) ==
    /\ pc = "call"
    /\ \E sx \in Xs, sy \in Ys, u \in UnitSizes, f \in factors, j \in JumpFlags :
        /\ startX' = sx /\ startY' = sy
        /\ unitSize' = u /\ sdfFactor' = f /\ enableJumping' = j
        /\ queue' = SeededQueue(sx, sy)
        /\ map' = SeededMap(map, sx, sy)
    /\ pc' = "loop"
    /\ firstPopped' = [c \in Cells |-> << >>]
    /\ poppedScores' = {}
    /\ UNCHANGED << blockedCells, sdfCells, sdfFunction, updateSDF, toX, toY, path,
                    pathLength, overflowLogged, frameVars, jump, lookup, offsets, move >>

CallFindPath == CallFindPathWith(SdfFactors)
CallFindPathSigned == CallFindPathWith(SignedFactors)

\* one iteration of the main loop: dequeue the lowest score, relax every offset
PopAndRelax ==
    /\ pc = "loop"
    /\ queueLength > 0
    /\ \E lowestScoreIndex \in {LowestScoreIndex(queue)} :
       \E node \in {queue[lowestScoreIndex]} :
       \E rest \in {Dequeue(queue, lowestScoreIndex)} :
       \E hits \in {RelaxingOffsets(map, node, sdfCells, unitSize, sdfFactor,
                                    enableJumping)} :
       \E written \in {RelaxedFrom(node, sdfCells, sdfFactor, hits)} :
          /\ map' = MapAfter(map, written)
          /\ queue' = EnqueueAll(rest, written)
          /\ overflowLogged' = (overflowLogged \/ Overflows(rest, written))
          /\ firstPopped' =
                IF firstPopped[CellIndex(node.x, node.y)] = << >>
                THEN [firstPopped EXCEPT ![CellIndex(node.x, node.y)] =
                         WrittenPath(map, node.x, node.y, startX, startY)]
                ELSE firstPopped
          /\ poppedScores' = poppedScores \cup {node.score}
    /\ UNCHANGED << blockedCells, sdfCells, sdfFunction, updateSDF, pc, startX,
                    startY, toX, toY, unitSize, sdfFactor, enableJumping, path,
                    pathLength, frameVars, jump, lookup, offsets, move >>

\* the other outcome of a signed overflow in the score of an offset that
\* passes the three skips: the addition traps and the run ends in the loop
OverflowTrap ==
    /\ pc = "loop"
    /\ queueLength > 0
    /\ \E node \in {queue[LowestScoreIndex(queue)]} :
       \E i \in 1 .. neighborOffsetCount :
          LET o == neighborOffsets[i]
              cellSdf == sdfCells[CellIndex(node.x, node.y)]
              x == node.x + o.x
              y == node.y + o.y
          IN  /\ ~SkipOffset(o.distance, MaxDistance(cellSdf, unitSize), enableJumping)
              /\ ~OutsideMap(x, y)
              /\ ~ClipsWall(sdfCells[CellIndex(x, y)], unitSize)
              /\ ScoreOverflows(node.score, o.distance, sdfCells[CellIndex(x, y)],
                                cellSdf, sdfFactor)
    /\ pc' = "trap"
    /\ UNCHANGED << blockedCells, sdfCells, sdfFunction, updateSDF, startX, startY,
                    toX, toY, unitSize, sdfFactor, enableJumping, map, queue, path,
                    pathLength, overflowLogged, firstPopped, poppedScores, frameVars,
                    jump, lookup, offsets, move >>

\* after the loop: write the path, or report that there is none
Reconstruct ==
    /\ pc = "loop"
    /\ queueLength = 0
    /\ \E tx \in Xs, ty \in Ys :
        /\ toX' = tx /\ toY' = ty
        /\ IF map[CellIndex(tx, ty)].score > 0
           THEN LET w == WrittenPath(map, tx, ty, startX, startY)
                IN  /\ path' = w \o SubSeq(path, Len(w) + 1, Len(path))
                    /\ pathLength' = Len(w)
           ELSE /\ path' = path
                /\ pathLength' = 0
    /\ pc' = "done"
    /\ UNCHANGED << blockedCells, sdfCells, sdfFunction, updateSDF, startX, startY,
                    unitSize, sdfFactor, enableJumping, map, queue, overflowLogged,
                    firstPopped, poppedScores, frameVars, jump, lookup, offsets, move >>

Next == UpdateSdf \/ CallFindPath \/ PopAndRelax \/ Reconstruct

Spec == Init /\ [][Next]_vars

\* the program runs on: a loop iteration or the return that can happen, happens
LiveSpec == Spec /\ WF_vars(PopAndRelax) /\ WF_vars(Reconstruct)

\* the runs with factors of both signs, where a score can leave the range of int
SignedNext ==
    UpdateSdf \/ CallFindPathSigned \/ PopAndRelax \/ OverflowTrap \/ Reconstruct

SignedSpec == Init /\ [][SignedNext]_vars

SignedLiveSpec == SignedSpec /\ WF_vars(PopAndRelax) /\ WF_vars(Reconstruct)

\* ------------------------------------------------- the frames of main's loop
\* the modulus of the rat wall factor and the number of distance functions
RatFactorCount == 8
SdfFunctionCount == 3

\* the endpoints of both agents, scaled down from (5,25) and (75,25)
pathRatStartX == 0
pathRatStartY == gridHeight \div 2
pathRatEndX == gridWidth - 1
pathRatEndY == gridHeight \div 2
pathCatStartX == 0
pathCatStartY == gridHeight \div 2
pathCatEndX == gridWidth - 1
pathCatEndY == gridHeight \div 2

\* a whole call of FindPath on the clearance field sdf: the map, the path
\* and the path length it leaves
FindPathResult(m, sdf, tx, ty, sx, sy, unit, p, factor, jumping) ==
    LET searched == SearchedMap(m, sdf, sx, sy, unit, factor, jumping)
        w == WrittenPath(searched, tx, ty, sx, sy)
    IN  IF searched[CellIndex(tx, ty)].score > 0
        THEN [map |-> searched, path |-> w \o SubSeq(p, Len(w) + 1, Len(p)),
              pathLength |-> Len(w)]
        ELSE [map |-> searched, path |-> p, pathLength |-> 0]

\* updateSDF after the mouse handling
FlagAfterMouse(flag, down) == IF down THEN 1 ELSE flag

\* mutant: the J key does not ask for an update
FlagAfterKeysWithoutJ(flag, keyC, keyQ, keyS, keyJ) ==
    IF keyC \/ keyQ \/ keyS THEN 1 ELSE flag

\* updateSDF after the keyboard handling
FlagAfterKeys(flag, keyC, keyQ, keyS, keyJ) ==
    IF keyC \/ keyQ \/ keyS \/ keyJ THEN 1 ELSE flag

\* mouse input handling, with the mouse over a cell of the grid; painting
\* stops at MaxBlocked blocked cells, and the loop is entered MaxFrames times
HandleMouse ==
    /\ pc = "mouse"
    /\ framesDrawn < MaxFrames
    /\ \E pressed \in BOOLEAN, down \in BOOLEAN, cell \in Cells :
        LET mode == IF pressed THEN (IF blockedCells[cell] = 1 THEN 0 ELSE 1)
                    ELSE paintMode
            painted == IF down THEN [blockedCells EXCEPT ![cell] = mode]
                       ELSE blockedCells
        IN  /\ painted \in Bitmaps
            /\ paintMode' = mode
            /\ blockedCells' = painted
            /\ updateSDF' = FlagAfterMouse(updateSDF, down)
    /\ pc' = "keys"
    /\ UNCHANGED << sdfCells, sdfFunction, findPathVars, randomizeBlocks,
                    ratWallFactor, jumpingEnabled, mapRat, pathRat, pathRatLength,
                    mapCat, pathCat, pathCatLength, framesDrawn, jump, lookup, offsets, move >>

\* keyboard input handling: C, Q, R, S, J (V only selects what is drawn)
HandleKeys ==
    /\ pc = "keys"
    /\ \E keyC \in BOOLEAN, keyQ \in BOOLEAN, keyR \in BOOLEAN, keyS \in BOOLEAN,
          keyJ \in BOOLEAN :
        /\ blockedCells' = IF keyC THEN [c \in Cells |-> 0] ELSE blockedCells
        /\ ratWallFactor' = IF keyQ THEN (ratWallFactor + 1) % RatFactorCount
                            ELSE ratWallFactor
        /\ randomizeBlocks' = IF keyR THEN 1 ELSE randomizeBlocks
        /\ sdfFunction' = IF keyS THEN (sdfFunction + 1) % SdfFunctionCount
                          ELSE sdfFunction
        /\ jumpingEnabled' = IF keyJ THEN (IF jumpingEnabled = 0 THEN 1 ELSE 0)
                             ELSE jumpingEnabled
        /\ updateSDF' = FlagAfterKeys(updateSDF, keyC, keyQ, keyS, keyJ)
    /\ pc' = "randomize"
    /\ UNCHANGED << sdfCells, findPathVars, paintMode, mapRat, pathRat,
                    pathRatLength, mapCat, pathCat, pathCatLength, framesDrawn,
                    jump, lookup, offsets, move >>

\* initialize map with random blocks: some bitmap within the bound
InitRandomBlocks ==
    /\ pc = "randomize"
    /\ IF randomizeBlocks # 0
       THEN /\ randomizeBlocks' = 0
            /\ updateSDF' = 1
            /\ blockedCells' \in Bitmaps
       ELSE UNCHANGED << randomizeBlocks, updateSDF, blockedCells >>
    /\ pc' = "frameUpdate"
    /\ UNCHANGED << sdfCells, sdfFunction, findPathVars, paintMode, ratWallFactor,
                    jumpingEnabled, mapRat, pathRat, pathRatLength, mapCat, pathCat,
                    pathCatLength, framesDrawn, jump, lookup, offsets, move >>

\* update sdf values and execute pathfinding for both agents
UpdateBlock ==
    /\ pc = "frameUpdate"
    /\ IF updateSDF # 0
       THEN \E sdf \in {ComputeSdf(blockedCells, sdfFunction)} :
            \E rat \in {FindPathResult(mapRat, sdf, pathRatStartX, pathRatStartY,
                                        pathRatEndX, pathRatEndY, 1, pathRat,
                                        ratWallFactor, jumpingEnabled)} :
            \E cat \in {FindPathResult(mapCat, sdf, pathCatStartX, pathCatStartY,
                                        pathCatEndX, pathCatEndY, 2, pathCat, 0,
                                        jumpingEnabled)} :
               /\ updateSDF' = 0
               /\ sdfCells' = sdf
               /\ mapRat' = rat.map /\ pathRat' = rat.path
               /\ pathRatLength' = rat.pathLength
               /\ mapCat' = cat.map /\ pathCat' = cat.path
               /\ pathCatLength' = cat.pathLength
       ELSE UNCHANGED << updateSDF, sdfCells, mapRat, pathRat, pathRatLength,
                         mapCat, pathCat, pathCatLength >>
    /\ pc' = "frameDraw"
    /\ UNCHANGED << blockedCells, sdfFunction, findPathVars, paintMode,
                    randomizeBlocks, ratWallFactor, jumpingEnabled, framesDrawn,
                    jump, lookup, offsets, move >>

\* the drawing of the frame reads the field, the maps and the paths
DrawFrame ==
    /\ pc = "frameDraw"
    /\ framesDrawn' = framesDrawn + 1
    /\ pc' = "mouse"
    /\ UNCHANGED << blockedCells, sdfCells, sdfFunction, updateSDF, findPathVars,
                    paintMode, randomizeBlocks, ratWallFactor, jumpingEnabled,
                    mapRat, pathRat, pathRatLength, mapCat, pathCat, pathCatLength,
                    jump, lookup, offsets, move >>

\* the state before the first frame: the arrays MemAlloc returns are zeroed
FrameInit ==
    /\ blockedCells = [c \in Cells |-> 0]
    /\ sdfCells = [c \in Cells |-> 0]
    /\ sdfFunction = 0
    /\ updateSDF = 1
    /\ pc = "mouse"
    /\ NoFindPath
    /\ MainLocalsAtStart
    /\ framesDrawn = 0
    /\ jump = NoJump
    /\ lookup = NoLookup
    /\ offsets = NoOffsets
    /\ move = NoMove

FrameNext == HandleMouse \/ HandleKeys \/ InitRandomBlocks \/ UpdateBlock \/ DrawFrame

FrameSpec == FrameInit /\ [][FrameNext]_vars

\* ----------------------------------- a relaxation at the source's full radius
\* the cap of the clearance and the radius of the neighbour offsets
SdfCap == 10
\* the side of the square grid the relaxation is made on, and the largest
\* number of blocked cells on it
ClipSide == 7
ClipWalls == 1

ClipCells == 0 .. (ClipSide * ClipSide - 1)
ClipX(c) == c % ClipSide
ClipY(c) == c \div ClipSide

RECURSIVE ClipWallSetsUpTo(_)
ClipWallSetsUpTo(n) ==
    IF n = 0 THEN {{}}
    ELSE LET smaller == ClipWallSetsUpTo(n - 1)
         IN  smaller \cup {w \cup {c} : w \in smaller, c \in ClipCells}
ClipWallSets == ClipWallSetsUpTo(ClipWalls)

\* the value the rebuild leaves at cell (i, j): reset to the cap, then every
\* blocked cell, in index order, zeroes itself and writes its distance where
\* that is below the stored value and below the cap
RECURSIVE ClipScan(_, _, _, _, _)
ClipScan(value, walls, f, i, j) ==
    IF walls = {} THEN value
    ELSE LET k == CHOOSE w \in walls : \A v \in walls : w <= v
             x == ClipX(k)
             y == ClipY(k)
             own == IF x = i /\ y = j THEN 0 ELSE value
             d == SdfDistance(f, x - i, y - j)
             inWindow == /\ i >= x - SdfCap /\ i <= x + SdfCap
                         /\ j >= y - SdfCap /\ j <= y + SdfCap
         IN  ClipScan(IF inWindow /\ d < own /\ d < SdfCap THEN d ELSE own,
                      walls \ {k}, f, i, j)
ClipSdf(walls, f, i, j) == ClipScan(SdfCap, walls, f, i, j)

\* the neighbour offsets of the loops over x and y from -10 to 10
FullOffsets ==
    { o \in [x : (0 - SdfCap) .. SdfCap, y : (0 - SdfCap) .. SdfCap,
             distance : 1 .. SdfCap] :
        o.distance = isqrt[o.x * o.x + o.y * o.y] }

\* the cells on the straight segment strictly between (x, y) and
\* (x + dx, y + dy)
CellsBetween(x, y, dx, dy) ==
    { c \in ClipCells :
        LET px == ClipX(c) - x
            py == ClipY(c) - y
        IN  /\ px * dy = py * dx
            /\ px * dx + py * dy > 0
            /\ px * dx + py * dy < dx * dx + dy * dy }

ClipInit ==
    /\ blockedCells = [c \in Cells |-> 0]
    /\ sdfCells = [c \in Cells |-> 0]
    /\ sdfFunction = 0
    /\ updateSDF = 1
    /\ pc = "field"
    /\ NoFindPath
    /\ MainLocalsAtStart
    /\ framesDrawn = 0
    /\ jump = NoJump
    /\ lookup = NoLookup
    /\ offsets = NoOffsets
    /\ move = NoMove

\* the obstacles, the metric and the unit size of the search
ClipBuild ==
    /\ pc = "field"
    /\ \E walls \in ClipWallSets, f \in 0 .. 2, unit \in UnitSizes :
        jump' = [jump EXCEPT !.walls = walls, !.metric = f, !.unit = unit]
    /\ pc' = "relax"
    /\ UNCHANGED << blockedCells, sdfCells, sdfFunction, updateSDF, findPathVars,
                    frameVars, lookup, offsets, move >>

\* one relaxation the search accepts, jumping enabled: from cell (x, y) by
\* an offset that passes the distance, the map and the landing tests
ClipRelax ==
    /\ pc = "relax"
    /\ \E c \in ClipCells, o \in FullOffsets :
        LET x == ClipX(c) + o.x
            y == ClipY(c) + o.y
            cellSdf == ClipSdf(jump.walls, jump.metric, ClipX(c), ClipY(c))
        IN  /\ ~SkipOffset(o.distance, MaxDistance(cellSdf, jump.unit), 1)
            /\ ~(x < 0 \/ x >= ClipSide \/ y < 0 \/ y >= ClipSide)
            /\ ~ClipsWall(ClipSdf(jump.walls, jump.metric, x, y), jump.unit)
            /\ jump' = [jump EXCEPT !.taken = TRUE, !.x = ClipX(c), !.y = ClipY(c),
                                    !.dx = o.x, !.dy = o.y]
    /\ pc' = "jumped"
    /\ UNCHANGED << blockedCells, sdfCells, sdfFunction, updateSDF, findPathVars,
                    frameVars, lookup, offsets, move >>

ClipNext == ClipBuild \/ ClipRelax

ClipSpec == ClipInit /\ [][ClipNext]_vars

\* ------------------------------------------------- reads of the lookup table
\* what a read past the end of the table may return
StrayValues(index) == {0 - 1, 0, CeilSqrt(index)}

LookupInit ==
    /\ blockedCells = [c \in Cells |-> 0]
    /\ sdfCells = [c \in Cells |-> 0]
    /\ sdfFunction = 0
    /\ updateSDF = 1
    /\ pc = "lookup"
    /\ NoFindPath
    /\ MainLocalsAtStart
    /\ framesDrawn = 0
    /\ jump = NoJump
    /\ lookup = NoLookup
    /\ offsets = NoOffsets
    /\ move = NoMove

\* isqrt[dx * dx + dy * dy]: the entry where the index is one of the table,
\* any value where it is past its end
ReadIsqrt ==
    /\ pc = "lookup"
    /\ \E dx \in (0 - LookupSpan) .. LookupSpan, dy \in (0 - LookupSpan) .. LookupSpan :
        LET index == dx * dx + dy * dy
        IN  IF index < IsqrtSize
            THEN lookup' = [read |-> TRUE, dx |-> dx, dy |-> dy, inRange |-> TRUE,
                            value |-> isqrt[index]]
            ELSE \E v \in StrayValues(index) :
                    lookup' = [read |-> TRUE, dx |-> dx, dy |-> dy,
                               inRange |-> FALSE, value |-> v]
    /\ UNCHANGED << blockedCells, sdfCells, sdfFunction, updateSDF, pc,
                    findPathVars, frameVars, jump, offsets,
                    move >>

LookupNext == ReadIsqrt

LookupSpec == LookupInit /\ [][LookupNext]_vars

\* --------------------------------------- the neighbour offset table at startup
\* NeighborOffset neighborOffsets[20*20]
NeighborCapacity == 400

\* mutant: the offset (0, 0) is stored as well
KeepsOffsetWithOrigin(d) == d <= SdfCap

\* the test of the loops that fill the table
KeepsOffset(d) == d <= SdfCap /\ d > 0

TableInit ==
    /\ blockedCells = [c \in Cells |-> 0]
    /\ sdfCells = [c \in Cells |-> 0]
    /\ sdfFunction = 0
    /\ updateSDF = 1
    /\ pc = "table"
    /\ NoFindPath
    /\ MainLocalsAtStart
    /\ framesDrawn = 0
    /\ jump = NoJump
    /\ lookup = NoLookup
    /\ offsets = NoOffsets
    /\ move = NoMove

\* one iteration of the inner loop over y, and the step of the loops; a kept
\* offset is written at neighborOffsets[neighborOffsetCount], which is past
\* the end of the array when the count has reached its capacity
BuildOffset ==
    /\ pc = "table"
    /\ LET d == isqrt[offsets.x * offsets.x + offsets.y * offsets.y]
           entry == [x |-> offsets.x, y |-> offsets.y, distance |-> d]
           kept == KeepsOffset(d)
           lastY == offsets.y = SdfCap
       IN  /\ offsets' =
                [offsets EXCEPT
                    !.table = IF kept /\ offsets.count < NeighborCapacity
                              THEN Append(@, entry) ELSE @,
                    !.overrun = @ \/ (kept /\ offsets.count >= NeighborCapacity),
                    !.count = IF kept THEN @ + 1 ELSE @,
                    !.y = IF lastY THEN 0 - SdfCap ELSE @ + 1,
                    !.x = IF lastY THEN @ + 1 ELSE @]
           /\ pc' = IF lastY /\ offsets.x = SdfCap THEN "tableBuilt" ELSE "table"
    /\ UNCHANGED << blockedCells, sdfCells, sdfFunction, updateSDF, findPathVars,
                    frameVars, jump, lookup, move >>

\* a search reads neighborOffsets[i] for an i below neighborOffsetCount
ReadOffset ==
    /\ pc = "tableBuilt"
    /\ \E i \in 1 .. offsets.count : offsets' = [offsets EXCEPT !.read = i]
    /\ UNCHANGED << blockedCells, sdfCells, sdfFunction, updateSDF, pc,
                    findPathVars, frameVars, jump, lookup, move >>

TableNext == BuildOffset \/ ReadOffset

TableSpec == TableInit /\ [][TableNext]_vars

\* ------------------------------------------------- the movement along a path
\* A float >= 0 is held as its multiple of 2^-FracBits.  The floats are the
\* multiples below 2^MantBits and, above, the multiples of a power of two
\* that have MantBits significant bits.
FloatUnit == 2 ^ FracBits

\* the spacing of the floats at v
RECURSIVE FloatStepFrom(_, _)
FloatStepFrom(v, step) ==
    IF v < step * 2 ^ MantBits THEN step ELSE FloatStepFrom(v, 2 * step)
FloatStep(v) == FloatStepFrom(v, 1)

\* the largest float that is at most v
FloatBelow(v) == (v \div FloatStep(v)) * FloatStep(v)

\* of the floats lo and lo + step around a value, the one picked by the
\* rounding to nearest, ties to even; side is the sign of value - midpoint
NearestFloat(lo, side) ==
    IF side < 0 THEN lo
    ELSE IF side > 0 THEN lo + FloatStep(lo)
    ELSE IF (lo \div FloatStep(lo)) % 2 = 0 THEN lo
    ELSE lo + FloatStep(lo)

\* the float nearest to p / q, the result of a float division
RoundRatio(p, q) ==
    LET lo == FloatBelow(p \div q)
    IN  NearestFloat(lo, 2 * p - q * (2 * lo + FloatStep(lo)))

\* the float nearest to v, the result of a float addition or multiplication
RoundFloat(v) == RoundRatio(v, 1)

\* sqrtf of the integer n, correctly rounded
FloatSqrt(n) ==
    LET square == n * FloatUnit * FloatUnit
        root == CHOOSE k \in 0 .. (n * FloatUnit) :
                    k * k <= square /\ (k + 1) * (k + 1) > square
        lo == FloatBelow(root)
    IN  IF lo * lo = square THEN lo
        ELSE NearestFloat(lo, 4 * square
                               - (2 * lo + FloatStep(lo)) * (2 * lo + FloatStep(lo)))

\* sqrtf(dx * dx + dy * dy) for the steps between two cells of the grid
MaxSquare == (gridWidth - 1) * (gridWidth - 1) + (gridHeight - 1) * (gridHeight - 1)
SegmentLengths == [n \in 0 .. MaxSquare |-> FloatSqrt(n)]
SegmentLength(p1, p2) ==
    SegmentLengths[(p2.x - p1.x) * (p2.x - p1.x) + (p2.y - p1.y) * (p2.y - p1.y)]

\* const float movementSpeed = 3.0f
MovementSpeed == 3

\* the values GetFrameTime returns
FrameTimes == { v \in 0 .. MaxFrameTime : FloatBelow(v) = v }

\* the loop over the segments from segment i on, pointDistance being the
\* summed length of the segments before it: what the call produces
RECURSIVE MoveFrom(_, _, _, _, _)
MoveFrom(nodes, pathCount, i, pointDistance, walked) ==
    IF i >= pathCount
    THEN [produced |-> FALSE, segment |-> 0, pointDistance |-> pointDistance,
          d |-> 0, t |-> 0]
    ELSE LET d == SegmentLength(nodes[i], nodes[i + 1])
         IN  IF RoundFloat(pointDistance + d) >= walked
             THEN [produced |-> TRUE, segment |-> i, pointDistance |-> pointDistance,
                   d |-> d, t |-> RoundRatio(RoundFloat(walked - pointDistance)
                                            * FloatUnit, d)]
             ELSE MoveFrom(nodes, pathCount, i + 1, RoundFloat(pointDistance + d),
                           walked)

\* CalcPathLength
RECURSIVE PathLengthFrom(_, _, _, _)
PathLengthFrom(nodes, pathCount, i, length) ==
    IF i >= pathCount THEN length
    ELSE PathLengthFrom(nodes, pathCount, i + 1,
                        RoundFloat(length + SegmentLength(nodes[i], nodes[i + 1])))
CalcPathLength(nodes, pathCount) == PathLengthFrom(nodes, pathCount, 1, 0)

MoveInit ==
    /\ blockedCells = [c \in Cells |-> 0]
    /\ sdfCells = [c \in Cells |-> 0]
    /\ sdfFunction = 0
    /\ updateSDF = 1
    /\ pc = "moveSearch"
    /\ NoFindPath
    /\ MainLocalsAtStart
    /\ framesDrawn = 0
    /\ jump = NoJump
    /\ lookup = NoLookup
    /\ offsets = NoOffsets
    /\ move = NoMove

\* mutant: the accumulator is kept when no position was produced
WalkedAfterKept(produced, walked) == walked

\* *walkedPathDistance after the loop over the segments
WalkedAfter(produced, walked) == IF produced THEN walked ELSE 0

\* the path and the path length a call of FindPath leaves for the drawing;
\* of its entries DrawPathMovement reads x and y only
MoveSearch ==
    /\ pc = "moveSearch"
    /\ \E b \in Bitmaps, f \in 0 .. 2, sx \in Xs, sy \in Ys, tx \in Xs, ty \in Ys,
          unit \in UnitSizes, factor \in SdfFactors, jumping \in JumpFlags :
        \E found \in {FindPathResult([c \in Cells |-> ZeroNode], ComputeSdf(b, f),
                                     tx, ty, sx, sy, unit, << >>, factor, jumping)} :
            move' = [move EXCEPT
                        !.path = [i \in 1 .. found.pathLength |->
                                    [x |-> found.path[i].x, y |-> found.path[i].y]],
                        !.pathCount = found.pathLength]
    /\ pc' = "moveDraw"
    /\ UNCHANGED << blockedCells, sdfCells, sdfFunction, updateSDF, findPathVars,
                    frameVars, jump, lookup, offsets >>

\* one call of DrawPathMovement with the frame time dt
DrawPathMovement ==
    /\ pc = "moveDraw"
    /\ \E dt \in FrameTimes :
        IF move.pathCount = 0
        THEN move' = [move EXCEPT !.called = TRUE, !.before = move.walked,
                                  !.advanced = move.walked, !.produced = FALSE,
                                  !.segment = 0, !.pointDistance = 0, !.d = 0,
                                  !.t = 0]
        ELSE \E walked \in {RoundFloat(move.walked + RoundFloat(dt * MovementSpeed))} :
             \E drawn \in {MoveFrom(move.path, move.pathCount, 1, 0, walked)} :
                move' = [move EXCEPT !.called = TRUE, !.before = move.walked,
                                     !.advanced = walked,
                                     !.walked = WalkedAfter(drawn.produced, walked),
                                     !.produced = drawn.produced,
                                     !.segment = drawn.segment,
                                     !.pointDistance = drawn.pointDistance,
                                     !.d = drawn.d, !.t = drawn.t]
    /\ UNCHANGED << blockedCells, sdfCells, sdfFunction, updateSDF, pc,
                    findPathVars, frameVars, jump, lookup, offsets >>

MoveNext == MoveSearch \/ DrawPathMovement

MoveSpec == MoveInit /\ [][MoveNext]_vars

\* ------------------------------------------------------------------ claims
Min2(a, b) == IF a < b THEN a ELSE b
MinOf(S) == CHOOSE m \in S : \A n \in S : m <= n
BlockedSet == {b \in Cells : blockedCells[b] = 1}

\* the three metrics as the claims state them
MetricOf(f, c, b) ==
    LET dx == Abs(CellX(c) - CellX(b))
        dy == Abs(CellY(c) - CellY(b))
    IN  CASE f = 0 -> CeilSqrt(dx * dx + dy * dy)
          [] f = 1 -> (IF dx > dy THEN dx ELSE dy)
          [] f = 2 -> dx + dy

CappedMinDistance(f, c, B) ==
    IF B = {} THEN sdfMax ELSE Min2(sdfMax, MinOf({MetricOf(f, c, b) : b \in B}))

C7_ClearanceMonotonic ==
    pc = "call" =>
        \A c \in Cells :
            blockedCells[c] = 0 =>
                LET more == ComputeSdf([blockedCells EXCEPT ![c] = 1], sdfFunction)
                IN  \A i \in Cells : more[i] <= sdfCells[i]

\* a rebuilt field in which blocking a further cell lowers one cell and keeps another
C7_Witness ==
    /\ pc = "call"
    /\ BlockedSet # {}
    /\ \E c \in Cells :
        /\ blockedCells[c] = 0
        /\ LET more == ComputeSdf([blockedCells EXCEPT ![c] = 1], sdfFunction)
           IN  /\ \E i \in Cells : i # c /\ more[i] < sdfCells[i]
               /\ \E i \in Cells : more[i] = sdfCells[i] /\ sdfCells[i] > 0

\* ---------------------------------------------------- claims about FindPath
SeedCell == CellIndex(startX, startY)
GoalCell == CellIndex(toX, toY)
LoopEnded == pc = "loop" /\ queueLength = 0
PathCell(i) == CellIndex(path[i].x, path[i].y)

\* C2: on success every cell of the path, both ends included, has clearance
\* at least unitSize
C2_PathCellsHaveClearance ==
    (pc = "done" /\ pathLength > 0) =>
        \A i \in 1 .. pathLength : sdfCells[PathCell(i)] >= unitSize

\* the edge relation and edge cost as the claims state them
StepBetween(u, v) ==
    CeilSqrt((CellX(v) - CellX(u)) * (CellX(v) - CellX(u))
             + (CellY(v) - CellY(u)) * (CellY(v) - CellY(u)))

AdmissibleJump(u, v) ==
    /\ u # v
    /\ Abs(CellX(v) - CellX(u)) <= sdfMax
    /\ Abs(CellY(v) - CellY(u)) <= sdfMax
    /\ StepBetween(u, v) <= sdfMax
    /\ StepBetween(u, v) <= (IF sdfCells[u] - unitSize > 1 THEN sdfCells[u] - unitSize ELSE 1)
    /\ (enableJumping = 0 => StepBetween(u, v) <= 1)
    /\ sdfCells[v] >= unitSize

JumpCost(u, v) ==
    StepBetween(u, v)
    + ((((sdfCells[v] + sdfCells[u]) * (StepBetween(u, v) + 1)) \div 2) * sdfFactor) \div 6

\* least summed cost of a jump sequence from the seed, -1 where there is none
RelaxOnce(d) ==
    [v \in Cells |->
        LET via == { d[u] + JumpCost(u, v) : u \in {w \in Cells : d[w] >= 0 /\ AdmissibleJump(w, v)} }
            all == IF d[v] >= 0 THEN via \cup {d[v]} ELSE via
        IN  IF all = {} THEN 0 - 1 ELSE MinOf(all)]

RECURSIVE LeastCostFrom(_)
LeastCostFrom(d) ==
    LET next == RelaxOnce(d)
    IN  IF next = d THEN d ELSE LeastCostFrom(next)

LeastCost == LeastCostFrom([v \in Cells |-> IF v = SeedCell THEN 0 ELSE 0 - 1])

\* C3: when the loop ends without overflow (factor >= 0) each stored score is
\* 1 + the least summed jump cost from the seed, and 0 exactly where no jump
\* sequence arrives
C3_ScoresAreLeastCosts ==
    (LoopEnded /\ ~overflowLogged /\ sdfFactor >= 0) =>
        LET least == LeastCost
        IN  \A c \in Cells :
                map[c].score = (IF least[c] >= 0 THEN 1 + least[c] ELSE 0)

\* a finished search with a weighted multi-jump score and an unreached cell
C3_Witness ==
    /\ LoopEnded /\ ~overflowLogged /\ sdfFactor > 0 /\ enableJumping = 1
    /\ \E c \in Cells : map[c].score = 0
    /\ \E c \in Cells :
        /\ map[c].score > 1
        /\ CellIndex(map[c].fromX, map[c].fromY) # SeedCell

\* C4 as stated: the path starts at the seed cell and ends at the goal cell
C4_PathRunsSeedToGoal ==
    (pc = "done" /\ pathLength > 0) =>
        /\ path[1] = Node(startX, startY, 0 - 1, 0 - 1, 1)
        /\ path[pathLength].x = toX /\ path[pathLength].y = toY

\* C4 amended: the path is written goal first: its first entry is the goal
\* cell's record and its last entry the seed cell's record, which for a factor
\* >= 0 still holds score 1 and no predecessor
C4_PathRunsGoalToSeed ==
    (pc = "done" /\ pathLength > 0) =>
        /\ path[1] = map[GoalCell]
        /\ path[1].x = toX /\ path[1].y = toY /\ path[1].score > 0
        /\ path[pathLength] = map[SeedCell]
        /\ path[pathLength].x = startX /\ path[pathLength].y = startY
        /\ sdfFactor >= 0 => path[pathLength] = Node(startX, startY, 0 - 1, 0 - 1, 1)

\* a path of at least three cells
C4_Witness ==
    /\ pc = "done" /\ pathLength >= 3
    /\ GoalCell # SeedCell
    /\ path[1].x = toX /\ path[1].y = toY

\* C5: once FindPath has entered its loop it leaves it: the queue runs empty
\* and the function returns
C5_SearchTerminates == (pc = "loop") ~> (pc = "done" /\ queueLength = 0)

\* a returned search whose loop ran over several cells
C5_Witness ==
    /\ pc = "done" /\ queueLength = 0
    /\ Cardinality({c \in Cells : map[c].score > 0}) >= 4

\* C6: a visited cell other than the seed has clearance >= unitSize in every
\* state of a run; a goal other than the seed with less clearance keeps score 0
\* and the search returns pathLength 0
C6_NarrowCellsStayUnvisited ==
    (pc \in {"loop", "done"}) =>
        /\ \A c \in Cells :
              (c # SeedCell /\ sdfCells[c] < unitSize) => map[c].score = 0
        /\ (pc = "done" /\ GoalCell # SeedCell /\ sdfCells[GoalCell] < unitSize)
              => pathLength = 0

\* a search that visited other cells and returned no path to a narrow goal
C6_Witness ==
    /\ pc = "done"
    /\ GoalCell # SeedCell
    /\ blockedCells[GoalCell] = 0
    /\ sdfCells[GoalCell] < unitSize
    /\ pathLength = 0
    /\ \E c \in Cells : c # SeedCell /\ map[c].score > 0

\* C8: with jumping off, consecutive path cells differ by a neighbour offset
\* of distance 1
C8_UnitStepsWithoutJumping ==
    (pc = "done" /\ pathLength > 0 /\ enableJumping = 0) =>
        \A i \in 1 .. (pathLength - 1) :
            \E k \in 1 .. neighborOffsetCount :
                /\ neighborOffsets[k].distance = 1
                /\ path[i].x - path[i + 1].x = neighborOffsets[k].x
                /\ path[i].y - path[i + 1].y = neighborOffsets[k].y

\* a path of several steps found with jumping off where a jump was in reach
C8_Witness ==
    /\ pc = "done" /\ enableJumping = 0 /\ pathLength >= 3
    /\ sdfCells[SeedCell] - unitSize >= 2

Surrounding(u) ==
    { v \in Cells : v # u /\ Abs(CellX(v) - CellX(u)) <= 1 /\ Abs(CellY(v) - CellY(u)) <= 1 }
Orthogonal(u) ==
    { v \in Cells : Abs(CellX(v) - CellX(u)) + Abs(CellY(v) - CellY(u)) = 1 }

\* C9 as stated: with jumping off every one of the eight surrounding cells of
\* a visited cell that is in the grid and wide enough is moved to
C9_EightNeighbourWalk ==
    (LoopEnded /\ enableJumping = 0 /\ ~overflowLogged) =>
        \A u \in Cells :
            map[u].score > 0 =>
                \A v \in Surrounding(u) : sdfCells[v] >= unitSize => map[v].score > 0

\* C9 amended: with jumping off the search is a 4-neighbour walk: the four
\* orthogonal neighbours are the moves, and no cell is entered diagonally
C9_FourNeighbourWalk ==
    (LoopEnded /\ enableJumping = 0 /\ ~overflowLogged) =>
        \A u \in Cells :
            map[u].score > 0 =>
                /\ \A v \in Orthogonal(u) : sdfCells[v] >= unitSize => map[v].score > 0
                /\ u # SeedCell => CellIndex(map[u].fromX, map[u].fromY) \in Orthogonal(u)

\* a finished walk with jumping off, from a seed whose clearance would allow a
\* diagonal step, that reached a diagonal neighbour of the seed around the corner
C9_Witness ==
    /\ LoopEnded /\ enableJumping = 0 /\ ~overflowLogged
    /\ sdfCells[SeedCell] - unitSize >= 2
    /\ \E v \in Surrounding(SeedCell) \ Orthogonal(SeedCell) :
        /\ map[v].score > 0
        /\ CellIndex(map[v].fromX, map[v].fromY) \in Orthogonal(SeedCell)

\* the score of the path recomputed from the seed: 1 + the summed jump costs
RECURSIVE PathCostFrom(_)
PathCostFrom(i) ==
    IF i >= pathLength THEN 1
    ELSE JumpCost(PathCell(i + 1), PathCell(i)) + PathCostFrom(i + 1)

\* C10: the score recomputed along the path equals the goal's stored score
\* (factor >= 0, no overflow)
C10_PathScoreRoundTrip ==
    (pc = "done" /\ pathLength > 0 /\ sdfFactor >= 0 /\ ~overflowLogged) =>
        PathCostFrom(1) = map[GoalCell].score

\* a weighted path of several jumps
C10_Witness ==
    /\ pc = "done" /\ pathLength >= 3 /\ sdfFactor > 0 /\ ~overflowLogged
    /\ map[GoalCell].score > pathLength

\* the unit sizes a finished search is compared with
TighterUnits(k) == (k + 1) .. sdfMax

\* C11: with everything else fixed, a search with a larger unit size finds no
\* path where the search at hand found none, and where both find one the
\* larger unit's goal score is not smaller (factor >= 0)
C11_TighterUnitNeverCheaper ==
    (LoopEnded /\ sdfFactor >= 0) =>
        \A k \in TighterUnits(unitSize) :
            LET tighter == SearchedMap(map, sdfCells, startX, startY, k, sdfFactor,
                                       enableJumping)
            IN  \A goal \in Cells :
                    /\ map[goal].score = 0 => tighter[goal].score = 0
                    /\ tighter[goal].score > 0 => tighter[goal].score >= map[goal].score

\* a finished search where the next unit size loses one goal and pays more for
\* another
C11_Witness ==
    /\ LoopEnded /\ sdfFactor >= 0 /\ unitSize + 1 \in TighterUnits(unitSize)
    /\ LET tighter == SearchedMap(map, sdfCells, startX, startY, unitSize + 1,
                                  sdfFactor, enableJumping)
       IN  /\ \E goal \in Cells : map[goal].score > 0 /\ tighter[goal].score = 0
           /\ \E goal \in Cells :
                tighter[goal].score > 0 /\ tighter[goal].score > map[goal].score

\* the entry the next loop iteration dequeues
NextPopped == queue[LowestScoreIndex(queue)]
Clearances == 0 .. sdfMax

\* C12 as stated: with a positive factor and a fixed step distance, an edge
\* to a landing cell of higher clearance never costs more
C12_ClearanceNeverCostsMore ==
    (pc = "loop" /\ queueLength > 0 /\ sdfFactor > 0) =>
        LET node == NextPopped
            cellSdf == sdfCells[CellIndex(node.x, node.y)]
        IN  \A d \in 1 .. sdfMax : \A low \in Clearances : \A high \in Clearances :
                low <= high =>
                    NextScore(node.score, d, high, cellSdf, sdfFactor)
                        <= NextScore(node.score, d, low, cellSdf, sdfFactor)

\* C12 amended: with a positive factor and a fixed step distance, an edge to
\* a landing cell of higher clearance never costs less
C12_ClearanceNeverCostsLess ==
    (pc = "loop" /\ queueLength > 0 /\ sdfFactor > 0) =>
        LET node == NextPopped
            cellSdf == sdfCells[CellIndex(node.x, node.y)]
        IN  \A d \in 1 .. sdfMax : \A low \in Clearances : \A high \in Clearances :
                low <= high =>
                    NextScore(node.score, d, low, cellSdf, sdfFactor)
                        <= NextScore(node.score, d, high, cellSdf, sdfFactor)

\* an iteration that relaxes two offsets of the same step distance, the one
\* with the higher landing clearance at the higher cost
C12_Witness ==
    /\ pc = "loop" /\ queueLength > 0 /\ sdfFactor > 0
    /\ LET node == NextPopped
           hits == RelaxingOffsets(map, node, sdfCells, unitSize, sdfFactor,
                                   enableJumping)
           landing(o) == sdfCells[CellIndex(node.x + o.x, node.y + o.y)]
       IN  \E i \in 1 .. Len(hits), j \in 1 .. Len(hits) :
              /\ hits[i].distance = hits[j].distance
              /\ landing(hits[i]) < landing(hits[j])
              /\ Relaxed(node, sdfCells, sdfFactor, hits[i]).score
                    < Relaxed(node, sdfCells, sdfFactor, hits[j]).score

\* the path FindPath would write for the goal c from the map as it is
PathFrom(c) == WrittenPath(map, CellX(c), CellY(c), startX, startY)

\* C13: what the map held for a cell when an entry of that cell was first
\* dequeued (its score and its chain of predecessors back to the seed) is what
\* the map holds for it ever after, so the path written after the queue has
\* run empty is the path an exit at that moment would have written
\* (factor >= 0)
C13_EarlyExitEqualsExhaustion ==
    (pc \in {"loop", "done"} /\ sdfFactor >= 0) =>
        /\ \A c \in Cells : firstPopped[c] # << >> => firstPopped[c] = PathFrom(c)
        /\ (pc = "done" /\ pathLength > 0 /\ firstPopped[GoalCell] # << >>) =>
              SubSeq(path, 1, pathLength) = firstPopped[GoalCell]

\* a returned search whose goal was dequeued with a path of three cells while
\* cells dequeued after it were still waiting in the queue
C13_Witness ==
    /\ pc = "done" /\ sdfFactor > 0 /\ pathLength >= 3
    /\ firstPopped[GoalCell] # << >>
    /\ \E c \in Cells :
        /\ firstPopped[c] # << >>
        /\ map[c].score > map[GoalCell].score
        /\ firstPopped[c][1].fromX # toX \/ firstPopped[c][1].fromY # toY

\* C16: the entry the next iteration dequeues has a score that is not below
\* the score of any entry dequeued before it (factor >= 0)
C16_PoppedScoresNeverDecrease ==
    (pc = "loop" /\ queueLength > 0 /\ sdfFactor >= 0) =>
        \A s \in poppedScores : NextPopped.score >= s

\* an iteration about to dequeue, after entries of three different scores,
\* from a queue that also holds an entry of a higher score
C16_Witness ==
    /\ pc = "loop" /\ queueLength > 1 /\ sdfFactor > 0
    /\ Cardinality(poppedScores) >= 3
    /\ \E i \in 1 .. queueLength : queue[i].score > NextPopped.score
    /\ \E i \in 1 .. (LowestScoreIndex(queue) - 1) : queue[i].score > NextPopped.score

NextRest == Dequeue(queue, LowestScoreIndex(queue))
NextWritten ==
    RelaxedFrom(NextPopped, sdfCells, sdfFactor,
                RelaxingOffsets(map, NextPopped, sdfCells, unitSize, sdfFactor,
                                enableJumping))

\* C15: at the top of the loop queueLength is within 0 .. W*H-1; every push
\* of an iteration writes queue[] at an index within 0 .. W*H-1; and the
\* pushes that hit the bound are dropped, newest first, while the entries
\* queued before them stay in place
C15_QueueStaysInBounds ==
    (pc = "loop") =>
        /\ queueLength \in 0 .. (CellCount - 1)
        /\ queueLength > 0 =>
              LET all == NextRest \o NextWritten
              IN  /\ \A slot \in WrittenSlotsFrom(NextRest, NextWritten, 1) :
                        slot \in 0 .. (CellCount - 1)
                  /\ EnqueueAll(NextRest, NextWritten) =
                        (IF Len(all) >= CellCount THEN SubSeq(all, 1, CellCount - 1)
                         ELSE all)

\* an iteration, after an earlier overflow, whose second to last push fills
\* the queue and whose last push is dropped
C15_Witness ==
    /\ pc = "loop" /\ queueLength > 0 /\ overflowLogged
    /\ Len(NextWritten) >= 2
    /\ Len(NextRest) + Len(NextWritten) = CellCount
    /\ (CellCount - 1) \in WrittenSlotsFrom(NextRest, NextWritten, 1)

\* C17: an iteration leaves the record of a cell with a score > 0 as it is or
\* replaces it by one of a strictly smaller score, and each entry it pushes is
\* the new record of a cell that was unvisited or had a higher score (any
\* factor)
C17_OnlyStrictImprovements ==
    [][(pc = "loop" /\ pc' = "loop") =>
          /\ \A c \in Cells :
                map[c].score > 0 => (map'[c] = map[c] \/ map'[c].score < map[c].score)
          /\ \A i \in queueLength .. Len(queue') :
                LET c == CellIndex(queue'[i].x, queue'[i].y)
                IN  /\ queue'[i] = map'[c]
                    /\ map[c].score = 0 \/ queue'[i].score < map[c].score]_vars

\* a run with a negative factor whose queue holds an entry of a cell that
\* has been improved since the entry was pushed
C17_Witness ==
    /\ pc = "loop" /\ sdfFactor < 0
    /\ \E i \in 1 .. queueLength :
        LET c == CellIndex(queue[i].x, queue[i].y)
        IN  map[c].score > 0 /\ map[c].score < queue[i].score

\* C18: when a frame is drawn, the clearance field is the transform of the
\* current bitmap under the current metric, and the score map, the path and
\* the path length of the rat and of the cat are what FindPath leaves on that
\* field with the current rat wall factor and jump flag.
C18_NoStaleResultsDrawn ==
    pc = "frameDraw" =>
        /\ sdfCells = ComputeSdf(blockedCells, sdfFunction)
        /\ LET rat == FindPathResult(mapRat, sdfCells, pathRatStartX, pathRatStartY,
                                     pathRatEndX, pathRatEndY, 1, pathRat,
                                     ratWallFactor, jumpingEnabled)
               cat == FindPathResult(mapCat, sdfCells, pathCatStartX, pathCatStartY,
                                     pathCatEndX, pathCatEndY, 2, pathCat, 0,
                                     jumpingEnabled)
           IN  /\ mapRat = rat.map /\ pathRat = rat.path
               /\ pathRatLength = rat.pathLength
               /\ mapCat = cat.map /\ pathCat = cat.path
               /\ pathCatLength = cat.pathLength

\* a second frame is drawn after Q was pressed in both frames, J in one of
\* them, with a wall on the grid and a path for the rat
C18_Witness ==
    /\ pc = "frameDraw"
    /\ framesDrawn = 1
    /\ ratWallFactor = 4
    /\ jumpingEnabled = 0
    /\ \E c \in Cells : blockedCells[c] = 1
    /\ pathRatLength > 0

\* C19: no accepted jump clips through a wall: every cell on the straight
\* segment strictly between the source and the landing cell of an accepted
\* relaxation has clearance >= unitSize.
C19_NoJumpClipsWall ==
    jump.taken =>
        \A c \in CellsBetween(jump.x, jump.y, jump.dx, jump.dy) :
            ClipSdf(jump.walls, jump.metric, ClipX(c), ClipY(c)) >= jump.unit

\* v is the smallest integer whose square is at least n
IsCeilSqrt(v, n) == v >= 0 /\ v * v >= n /\ (v = 0 \/ (v - 1) * (v - 1) < n)

\* C20 as stated: for every offset with |dx| <= 15 and |dy| <= 15 the index
\* dx*dx + dy*dy is a valid index of the table and the entry read there is
\* ceil(sqrt(dx*dx + dy*dy)).
C20_TableCoversFifteen ==
    (lookup.read /\ Abs(lookup.dx) <= 15 /\ Abs(lookup.dy) <= 15) =>
        /\ lookup.inRange
        /\ IsCeilSqrt(lookup.value, lookup.dx * lookup.dx + lookup.dy * lookup.dy)

\* C20, amended: for every offset with |dx| <= 11 and |dy| <= 11 the index
\* dx*dx + dy*dy is a valid index of the table and the entry read there is
\* ceil(sqrt(dx*dx + dy*dy)).
C20_TableCoversEleven ==
    (lookup.read /\ Abs(lookup.dx) <= 11 /\ Abs(lookup.dy) <= 11) =>
        /\ lookup.inRange
        /\ IsCeilSqrt(lookup.value, lookup.dx * lookup.dx + lookup.dy * lookup.dy)

\* the corner offset: index 242, entry 16
C20_Witness ==
    /\ lookup.read
    /\ lookup.dx = 11 /\ lookup.dy = 0 - 11
    /\ lookup.inRange
    /\ lookup.value = 16

\* the from links of the visited cells other than the seed point at visited
\* cells of strictly smaller stored score
LinksDescend ==
    \A c \in Cells \ {CellIndex(startX, startY)} :
        map[c].score > 0 =>
            /\ ~OutsideMap(map[c].fromX, map[c].fromY)
            /\ map[CellIndex(map[c].fromX, map[c].fromY)].score > 0
            /\ map[CellIndex(map[c].fromX, map[c].fromY)].score < map[c].score

\* the walk back from the goal stops at an entry whose from link is the seed
WalkReachesSeed ==
    LET walked == WalkBack(map, toX, toY, startX, startY, << >>)
    IN  IF Len(walked) = 0 THEN toX = startX /\ toY = startY
        ELSE /\ walked[Len(walked)].fromX = startX
             /\ walked[Len(walked)].fromY = startY

\* C22: with a factor >= 0, during and after a search the seed cell keeps
\* score 1 and the sentinel predecessor, and every other visited cell's
\* predecessor is a visited cell of strictly smaller stored score; a
\* reconstructed path holds no cell twice, has between 1 and W*H entries,
\* and its walk stops at the seed, not at the safety bound.
C22_PredecessorsDescendToSeed ==
    (pc \in {"loop", "done"} /\ sdfFactor >= 0) =>
        /\ map[CellIndex(startX, startY)] = Node(startX, startY, 0 - 1, 0 - 1, 1)
        /\ LinksDescend
        /\ (pc = "done" /\ pathLength > 0) =>
              /\ \A i \in 1 .. pathLength : \A j \in 1 .. pathLength :
                    (path[i].x = path[j].x /\ path[i].y = path[j].y) => i = j
              /\ pathLength >= 1 /\ pathLength <= CellCount
              /\ WalkReachesSeed

\* a path of at least three cells was written after a search with a positive
\* factor around a blocked cell
C22_Witness ==
    /\ pc = "done"
    /\ sdfFactor > 0
    /\ pathLength >= 3
    /\ \E c \in Cells : blockedCells[c] = 1

\* the offsets the table is to hold: dx, dy in [-10, 10], not both zero, with
\* ceil(sqrt(dx*dx + dy*dy)) <= 10
WantedOffsets ==
    { o \in [x : (0 - 10) .. 10, y : (0 - 10) .. 10, distance : 1 .. 10] :
        /\ ~(o.x = 0 /\ o.y = 0)
        /\ IsCeilSqrt(o.distance, o.x * o.x + o.y * o.y) }

\* C21: the loops never write past the 400 entries of the table; once they
\* are done the table holds exactly one entry (dx, dy, d) for each offset
\* with dx, dy in [-10, 10], not both zero, and d = ceil(sqrt(dx*dx + dy*dy))
\* <= 10, and no other entry; the reads of a search leave the table and its
\* count as they are.
C21_TableHoldsTheDisc ==
    /\ ~offsets.overrun
    /\ offsets.count <= 400
    /\ pc = "tableBuilt" =>
          /\ offsets.count = Len(offsets.table)
          /\ \A o \in WantedOffsets :
                Cardinality({i \in 1 .. offsets.count : offsets.table[i] = o}) = 1
          /\ \A i \in 1 .. offsets.count : offsets.table[i] \in WantedOffsets

\* the table is complete and a search has read its last entry
C21_Witness ==
    /\ pc = "tableBuilt"
    /\ offsets.count = 316
    /\ offsets.read = offsets.count
    /\ offsets.table[offsets.read] = [x |-> 10, y |-> 0, distance |-> 10]

\* C23 as stated: after a call with a non-empty path the walked distance is
\* either at most the total path length, a position having been produced
\* with interpolation parameter in [0, 1], or it is exactly 0 after a reset
\* made because it exceeded the total path length; with an empty path the
\* accumulator is unchanged and nothing is produced.
C23_WalkedWithinPathOrReset ==
    move.called =>
        IF move.pathCount = 0
        THEN move.walked = move.before /\ ~move.produced
        ELSE \/ /\ move.produced
                /\ move.walked <= CalcPathLength(move.path, move.pathCount)
                /\ move.t >= 0 /\ move.t <= FloatUnit
             \/ /\ ~move.produced
                /\ move.walked = 0
                /\ move.advanced > CalcPathLength(move.path, move.pathCount)

\* C23, amended: after a call with a non-empty path the walked distance is
\* either at most the total path length, a position having been produced on
\* the first segment whose rounded end distance reaches it, with an
\* interpolation parameter >= 0 that exceeds 1 only where the end distance
\* was rounded up to reach it, or it is exactly 0 after a reset made because
\* no segment reached it: it exceeded the total path length, or the path is
\* a single cell; with an empty path the accumulator is unchanged and
\* nothing is produced.
C23_WalkedWithinRoundedPathOrReset ==
    move.called =>
        IF move.pathCount = 0
        THEN move.walked = move.before /\ ~move.produced
        ELSE \/ /\ move.produced
                /\ move.walked <= CalcPathLength(move.path, move.pathCount)
                /\ move.pointDistance <= move.walked
                /\ move.walked <= RoundFloat(move.pointDistance + move.d)
                /\ move.t >= 0
                /\ move.t > FloatUnit => move.pointDistance + move.d < move.walked
             \/ /\ ~move.produced
                /\ move.walked = 0
                /\ \/ move.advanced > CalcPathLength(move.path, move.pathCount)
                   \/ move.pathCount = 1

\* after several calls a position is produced inside the second segment of
\* a path of three cells or more
C23_Witness ==
    /\ move.called
    /\ move.pathCount >= 3
    /\ move.produced
    /\ move.segment = 2
    /\ move.before > 0
    /\ move.t > 0 /\ move.t < FloatUnit

====
